---- MODULE Spec2Model ----
(***************************************************************************)
(* A model of the Empathic Narrator plugin: the voice session modal        *)
(* (src/src/AgentModal.ts) and the text-to-speech service                  *)
(* (src/src/HumeService.ts).  Everything runs on one cooperative event     *)
(* loop, so an action is one task: a callback together with the            *)
(* continuations (microtasks) it releases, up to the next await.           *)
(***************************************************************************)
EXTENDS Integers, Sequences, FiniteSets, TLC

\* Number of startListening invocations (button presses that reach the
\* microphone request) the model follows.  Invocation i owns stream i,
\* socket i and recorder i: each is created at most once per invocation.
MaxStarts == 2

\* Number of startListening invocations followed where credential edits or
\* inbound messages are followed as well.
FewStarts == 1

\* Number of streamTextToSpeech calls the model follows.  Call c owns audio
\* element c: playAudio creates at most one element per call.
MaxCalls == 2

Calls == 1..MaxCalls

Ids == 1..MaxStarts

\* A null element / handle.
NoEl == "<null>"
Null == 0

\* settings.humeApiKey values: the default (empty) and two configured keys.
Keys == {"", "k", "k2"}

\* HumeService.client before getClient constructed one.
NoClient == "<null>"

VARIABLES
    apiKey,          \* settings.humeApiKey (the settings object is shared with the plugin)
    modal,           \* "constructed" | "open" | "closed": the Modal's lifecycle
    mediaStream,     \* AgentModal.mediaStream: Null or a stream id
    socket,          \* AgentModal.socket: Null or a socket id
    mediaRecorder,   \* AgentModal.mediaRecorder: Null or a recorder id
    isListening,     \* AgentModal.isListening
    statusEl,        \* text of the status label (NoEl before onOpen)
    transcriptionEl, \* text of the transcript region
    responseEl,      \* text of the reply region
    startButton,     \* text of the start/stop button
    pc,              \* pc[i]: where invocation i of startListening is suspended
    tracks,          \* tracks[m]: "none" | "live" | "stopped", the tracks of stream m
    readyState,      \* readyState[s]: "none" | "connecting" | "open" | "closed"
    evClose,         \* evClose[s]: a 'close' event of socket s is still to be delivered
    evErr,           \* evErr[s]: an 'error' event of socket s may still be delivered
    rec,             \* rec[r]: "none" | "recording" | "flushing" | "inactive"
    recStream,       \* recStream[r]: the stream recorder r was created on
    reads,           \* FileReader reads in flight: [sock], the socket each captured
    client,          \* HumeService.client: NoClient or the key it was constructed with
    saving,          \* a saveSettings call is awaiting saveData
    loaded,          \* the plugin is enabled (onunload has not run)
    tpc,             \* tpc[c]: where call c of streamTextToSpeech stands
    caller,          \* caller[c]: "none" | "direct" | "command", who made call c
    audio,           \* audio[a]: the playback state of audio element a
    currentTime,     \* currentTime[a]: 0 at the start, 1 once playback has advanced
    currentAudio,    \* HumeService.currentAudio: Null or an audio element
    lastOp           \* history: the last handler that ran and what it did, in order

\* The voice session modal's own state.
sessionVars == <<modal, mediaStream, socket, mediaRecorder, isListening,
                 statusEl, transcriptionEl, responseEl, startButton, pc, tracks,
                 readyState, evClose, evErr, rec, recStream, reads>>

\* The text-to-speech service's own state.
ttsVars == <<client, saving, loaded, tpc, caller, audio, currentTime, currentAudio>>

vars == <<apiKey, sessionVars, ttsVars, lastOp>>

\* One observable effect of a handler: a call into the platform or the SDK.
Ev(e, id, txt) == [e |-> e, id |-> id, txt |-> txt]

\* The mutable state the handlers of the modal share, as one record, so that
\* a handler's calls compose in program order.
Cur ==
    [mediaStream |-> mediaStream, socket |-> socket, mediaRecorder |-> mediaRecorder,
     isListening |-> isListening, statusEl |-> statusEl, startButton |-> startButton,
     tracks |-> tracks, readyState |-> readyState, evClose |-> evClose,
     evErr |-> evErr, rec |-> rec, recStream |-> recStream, fx |-> <<>>]

Commit(s, op, id) ==
    /\ mediaStream' = s.mediaStream
    /\ socket' = s.socket
    /\ mediaRecorder' = s.mediaRecorder
    /\ isListening' = s.isListening
    /\ statusEl' = s.statusEl
    /\ startButton' = s.startButton
    /\ tracks' = s.tracks
    /\ readyState' = s.readyState
    /\ evClose' = s.evClose
    /\ evErr' = s.evErr
    /\ rec' = s.rec
    /\ recStream' = s.recStream
    /\ lastOp' = [op |-> op, id |-> id, fx |-> s.fx]
    /\ UNCHANGED ttsVars

Do(s, e, id, txt) == [s EXCEPT !.fx = Append(@, Ev(e, id, txt))]

\* new Notice(text)
Notice(s, txt) == Do(s, "notice", 0, txt)

\* AgentModal.updateStatus
UpdateStatus(s, status) ==
    IF s.statusEl # NoEl
    THEN Do([s EXCEPT !.statusEl = status], "status", 0, status)
    ELSE s

\* startButton.setText(...) with the class swap
SetButton(s, txt) ==
    IF s.startButton # NoEl THEN [s EXCEPT !.startButton = txt] ELSE s

\* MediaRecorder.stop(): state becomes inactive at once, a last dataavailable
\* event follows as a task.
RecorderStop(s, r) ==
    Do([s EXCEPT !.rec[r] = "flushing"], "recStop", r, "")

\* track.stop() on every track of stream m.  A recorder whose stream has no
\* live track left is inactivated by the platform.
TracksStop(s, m) ==
    Do([s EXCEPT !.tracks[m] = "stopped",
                 !.rec = [r \in Ids |->
                            IF s.rec[r] = "recording" /\ s.recStream[r] = m
                            THEN "flushing" ELSE s.rec[r]]],
       "trackStop", m, "")

\* stopListening, last block: the flag, the status label and the button.
StoppedCore(s) ==
    SetButton(UpdateStatus([s EXCEPT !.isListening = FALSE], "Stopped"),
              "Start Listening")

\* A faulty first block that calls stop() on an inactive recorder too.
StopRecorderAlways(s) ==
    LET r == s.mediaRecorder
    IN [(IF r # Null THEN RecorderStop(s, r) ELSE s) EXCEPT !.mediaRecorder = Null]

\* stopListening, first block: stop the recorder unless inactive, drop it.
StopRecorder(s) ==
    LET r == s.mediaRecorder
    IN [(IF r # Null /\ s.rec[r] = "recording" THEN RecorderStop(s, r) ELSE s)
          EXCEPT !.mediaRecorder = Null]

\* A faulty stopListening that stops the tracks but keeps the stream handle.
StopStreamKeepHandle(s) ==
    IF s.mediaStream # Null THEN TracksStop(s, s.mediaStream) ELSE s

\* stopListening, second block: stop every track of the stream, drop it.
StopStream(s) ==
    IF s.mediaStream # Null
    THEN [TracksStop(s, s.mediaStream) EXCEPT !.mediaStream = Null]
    ELSE s

\* socket.close() on socket k.  On a socket that is already closed it does
\* nothing.  Otherwise the socket is closed at once; its 'close' event is
\* delivered from inside the call (sync) or left pending, and a socket closed
\* before it opened may report an 'error' as well.
SocketCloseCall(s, k, sync) ==
    IF s.readyState[k] \in {"connecting", "open"}
    THEN Do([s EXCEPT !.readyState[k] = "closed",
                      !.evClose[k] = ~sync,
                      !.evErr[k] = (s.readyState[k] = "connecting")],
            "close", k, s.readyState[k])
    ELSE Do(s, "close", k, s.readyState[k])

\* AgentModal.stopListening.  sync says whether the SDK delivers the socket's
\* 'close' event from inside socket.close(): the close handler then runs
\* before this.socket is reset, and re-enters stopListening while isListening
\* is still true.
RECURSIVE StopListening(_, _)
StopListening(s, sync) ==
    LET s3 == StopStream(StopRecorder(s))
        k  == s3.socket
        live == k # Null /\ s3.readyState[k] \in {"connecting", "open"}
        s4 == IF k # Null THEN SocketCloseCall(s3, k, sync) ELSE s3
        s5 == IF live /\ sync
              THEN LET h == Do(s4, "log", 0, "EVI WebSocket closed")
                   IN IF h.isListening THEN StopListening(h, sync) ELSE h
              ELSE s4
        s6 == IF k # Null THEN [s5 EXCEPT !.socket = Null] ELSE s5
    IN StoppedCore(s6)

\* Whether socket.close() delivers the 'close' event synchronously is the
\* SDK's choice.  It matters only while isListening is true: otherwise the
\* handler just logs, which is the asynchronous delivery taken at once.
SyncChoices == IF isListening THEN BOOLEAN ELSE {FALSE}

ModalInit ==
    /\ apiKey = "k"
    /\ modal = "constructed"
    /\ mediaStream = Null
    /\ socket = Null
    /\ mediaRecorder = Null
    /\ isListening = FALSE
    /\ statusEl = NoEl
    /\ transcriptionEl = NoEl
    /\ responseEl = NoEl
    /\ startButton = NoEl
    /\ pc = [i \in Ids |-> "unused"]
    /\ tracks = [i \in Ids |-> "none"]
    /\ readyState = [i \in Ids |-> "none"]
    /\ evClose = [i \in Ids |-> FALSE]
    /\ evErr = [i \in Ids |-> FALSE]
    /\ rec = [i \in Ids |-> "none"]
    /\ recStream = [i \in Ids |-> Null]
    /\ reads = {}
    /\ lastOp = [op |-> "new", id |-> Null, fx |-> <<>>]

\* HumeService after its construction in onload.
ServiceInit ==
    /\ client = NoClient
    /\ saving = FALSE
    /\ loaded = TRUE
    /\ tpc = [c \in Calls |-> "unused"]
    /\ caller = [c \in Calls |-> "none"]
    /\ audio = [a \in Calls |-> "none"]
    /\ currentTime = [a \in Calls |-> 0]
    /\ currentAudio = Null

\* AgentModal.onOpen
OnOpen ==
    /\ modal = "constructed"
    /\ modal' = "open"
    /\ statusEl' = "Ready to start"
    /\ startButton' = "Start Listening"
    /\ transcriptionEl' = "Waiting for input..."
    /\ responseEl' = "Waiting for response..."
    /\ lastOp' = [op |-> "onOpen", id |-> Null, fx |-> <<>>]
    /\ UNCHANGED <<apiKey, mediaStream, socket, mediaRecorder, isListening, pc,
                   tracks, readyState, evClose, evErr, rec, recStream, reads>>
    /\ UNCHANGED ttsVars

\* AgentModal.onClose
OnClose ==
    /\ modal = "open"
    /\ modal' = "closed"
    /\ \E sync \in SyncChoices : Commit(StopListening(Cur, sync), "onClose", Null)
    /\ UNCHANGED <<apiKey, transcriptionEl, responseEl, pc, reads>>

\* The startListening invocations suspended at an await.
InFlight == {i \in Ids : pc[i] \in {"mic", "open"}}

\* The id of the next startListening invocation: the least unused one.
NextId == CHOOSE i \in Ids : pc[i] = "unused" /\ \A j \in Ids : pc[j] = "unused" => i <= j

\* The catch block of startListening: log, notice, status, then stopListening.
Catch(s, message, sync) ==
    StopListening(
        UpdateStatus(
            Notice(Do(s, "log", 0, "Error starting voice session:"),
                   "Failed to start voice session: " \o message),
            "Error: " \o message),
        sync)

\* A faulty startListening that skips the credential check.
StartListeningUnchecked(s, i) ==
    Do(UpdateStatus(s, "Requesting microphone access..."), "getUserMedia", i, "")

\* startListening up to its first await: the credential check, the status
\* update and the getUserMedia request.
StartListening(s, i) ==
    IF apiKey = ""
    THEN Notice(s, "Please configure your Hume API key in settings.")
    ELSE Do(UpdateStatus(s, "Requesting microphone access..."), "getUserMedia", i, "")

\* AgentModal.toggleListening: the click handler of the start/stop button.
ToggleListening ==
    /\ modal = "open"
    /\ IF isListening
       THEN /\ \E sync \in SyncChoices : Commit(StopListening(Cur, sync), "stopListening", Null)
            /\ UNCHANGED pc
       ELSE /\ apiKey # "" => \E i \in Ids : pc[i] = "unused"
            /\ Commit(StartListening(Cur, IF apiKey = "" THEN Null ELSE NextId),
                      "startListening", IF apiKey = "" THEN Null ELSE NextId)
            /\ pc' = IF apiKey = "" THEN pc ELSE [pc EXCEPT ![NextId] = "mic"]
    /\ UNCHANGED <<apiKey, modal, transcriptionEl, responseEl, reads>>

\* startListening from the getUserMedia grant to the waitForOpen await.
\* fail: "construct" when client.empathicVoice.chat.connect({}) throws,
\* "connect" when this.socket.connect() throws.
AfterMic(s, i, fail, sync) ==
    LET s1 == UpdateStatus([s EXCEPT !.mediaStream = i, !.tracks[i] = "live"],
                           "Connecting to Hume EVI...")
        s2 == Do([s1 EXCEPT !.socket = i, !.readyState[i] = "connecting"],
                 "newSocket", i, "")
        s3 == Do(s2, "handlers", i, "")
    IN IF fail = "construct" THEN Catch(s1, "socket", sync)
       ELSE IF fail = "connect" THEN Catch(s3, "connect", sync)
       ELSE Do(s3, "connect", i, "")

\* getUserMedia resolves for invocation i.
MicGranted(i) ==
    /\ pc[i] = "mic"
    /\ \E fail \in {"ok", "construct", "connect"}, sync \in SyncChoices :
         /\ Commit(AfterMic(Cur, i, fail, sync),
                   IF fail = "ok" THEN "micGranted" ELSE "startFailed", i)
         /\ pc' = [pc EXCEPT ![i] = IF fail = "ok" THEN "open" ELSE "done"]
    /\ UNCHANGED <<apiKey, modal, transcriptionEl, responseEl, reads>>

\* getUserMedia rejects for invocation i (permission denied, no device).
MicDenied(i) ==
    /\ pc[i] = "mic"
    /\ \E sync \in SyncChoices : Commit(Catch(Cur, "Permission denied", sync), "startFailed", i)
    /\ pc' = [pc EXCEPT ![i] = "done"]
    /\ UNCHANGED <<apiKey, modal, transcriptionEl, responseEl, reads>>

\* AgentModal.startAudioStreaming for invocation i.  fail: "newRecorder" when
\* new MediaRecorder(...) throws, "recStart" when mediaRecorder.start throws.
\* The result's thrown field says whether it threw.
StartAudioStreaming(s, i, fail) ==
    IF s.mediaStream = Null \/ s.socket = Null THEN [st |-> s, thrown |-> FALSE]
    ELSE IF fail = "newRecorder" THEN [st |-> s, thrown |-> TRUE]
    ELSE LET s1 == [s EXCEPT !.mediaRecorder = i, !.rec[i] = "inactive",
                             !.recStream[i] = s.mediaStream]
         IN IF fail = "recStart" THEN [st |-> s1, thrown |-> TRUE]
            ELSE [st |-> Do([s1 EXCEPT !.rec[i] = "recording"], "recStart", i, ""),
                  thrown |-> FALSE]

\* startListening after waitForOpen resolved.
AfterOpen(s, i, fail, sync) ==
    LET a == StartAudioStreaming(s, i, fail)
    IN IF a.thrown THEN Catch(a.st, "recorder", sync)
       ELSE SetButton(UpdateStatus([a.st EXCEPT !.isListening = TRUE], "Listening..."),
                      "Stop Listening")

\* The socket's 'open' handler of setupSocketHandlers.
OnSocketOpen(s) == UpdateStatus(Do(s, "log", 0, "EVI WebSocket connected"), "Connected to EVI")

\* Socket k opens: the 'open' handler runs, and the invocation awaiting
\* waitForOpen on k resumes in the same task.
SocketOpen(k) ==
    /\ readyState[k] = "connecting"
    /\ \E fail \in {"ok", "newRecorder", "recStart"}, sync \in SyncChoices :
         LET s0 == OnSocketOpen([Cur EXCEPT !.readyState[k] = "open"])
             a  == StartAudioStreaming(s0, k, fail)
         IN /\ pc[k] = "open" \/ fail = "ok"
            /\ Commit(IF pc[k] = "open" THEN AfterOpen(s0, k, fail, sync) ELSE s0,
                      IF pc[k] = "open" /\ a.thrown THEN "startFailed" ELSE "socketOpen", k)
    /\ pc' = [pc EXCEPT ![k] = IF @ = "open" THEN "done" ELSE @]
    /\ UNCHANGED <<apiKey, modal, transcriptionEl, responseEl, reads>>

\* The socket's 'error' handler of setupSocketHandlers.
OnSocketError(s) ==
    UpdateStatus(Notice(Do(s, "log", 0, "EVI WebSocket error:"),
                        "Connection error occurred"),
                 "Connection error")

\* Socket k reports an error: the connection is lost, the 'error' handler
\* runs, a pending waitForOpen on k rejects, and a 'close' event follows.
SocketError(k) ==
    /\ readyState[k] \in {"connecting", "open"} \/ evErr[k]
    /\ \E sync \in SyncChoices :
         LET s0 == OnSocketError([Cur EXCEPT !.readyState[k] = "closed",
                                            !.evErr[k] = FALSE,
                                            !.evClose[k] = TRUE])
         IN Commit(IF pc[k] = "open" THEN Catch(s0, "Unknown error", sync) ELSE s0,
                   IF pc[k] = "open" THEN "startFailed" ELSE "socketError", k)
    /\ pc' = [pc EXCEPT ![k] = IF @ = "open" THEN "done" ELSE @]
    /\ UNCHANGED <<apiKey, modal, transcriptionEl, responseEl, reads>>

\* A faulty 'close' handler that stops the session and then reconnects.
OnSocketCloseRetry(s, sync) ==
    LET s0 == Do(s, "log", 0, "EVI WebSocket closed")
    IN Do(IF s0.isListening THEN StopListening(s0, sync) ELSE s0, "connect", 0, "")

\* The socket's 'close' handler of setupSocketHandlers.
OnSocketClose(s, sync) ==
    LET s0 == Do(s, "log", 0, "EVI WebSocket closed")
    IN IF s0.isListening THEN StopListening(s0, sync) ELSE s0

\* A 'close' event of socket k is delivered: one the program's close() or an
\* error left pending, or the remote end closing an open socket.
SocketClose(k) ==
    /\ evClose[k] \/ readyState[k] = "open"
    /\ \E sync \in SyncChoices :
         Commit(OnSocketClose([Cur EXCEPT !.readyState[k] = "closed",
                                          !.evClose[k] = FALSE], sync),
                "socketClose", k)
    /\ UNCHANGED <<apiKey, modal, transcriptionEl, responseEl, pc, reads>>

\* The settings tab's onChange: the shared settings object is mutated in
\* place, then saveSettings is awaited.
SetApiKey(k) ==
    /\ k # apiKey
    /\ apiKey' = k
    /\ saving' = TRUE
    /\ lastOp' = [op |-> "setKey", id |-> Null, fx |-> <<>>]
    /\ UNCHANGED <<sessionVars, client, loaded, tpc, caller, audio, currentTime, currentAudio>>

\* saveSettings after saveData resolved: HumeService.updateSettings drops the
\* client.  Saves still pending are followed as one.
SaveSettings ==
    /\ saving
    /\ saving' = FALSE
    /\ client' = NoClient
    /\ lastOp' = [op |-> "saveSettings", id |-> Null, fx |-> <<>>]
    /\ UNCHANGED <<apiKey, sessionVars, loaded, tpc, caller, audio, currentTime, currentAudio>>

\* Inbound socket messages: the five tags handleSocketMessage consumes and one
\* it does not; the payload (message.content or data) missing, empty or present.
MsgTypes == {"user_message", "assistant_message", "audio_output",
             "user_interruption", "error", "chat_metadata"}
Missing == "<undefined>"
Payloads == {Missing, "", "Hello"}

HasContent(payload) == payload # Missing /\ payload # ""

\* AgentModal.playAudioResponse: decode, create an Audio element and play it.
PlayAudioResponse(s, data) == Do(s, "playResponse", 0, data)

\* A faulty handleSocketMessage that ends the session on an 'error' message.
HandleSocketMessageFatal(s, type, payload) ==
    CASE type = "audio_output" /\ HasContent(payload) -> PlayAudioResponse(s, payload)
      [] type = "user_interruption" -> UpdateStatus(s, "Interrupted - listening...")
      [] type = "error" ->
            StopListening(Notice(Do(s, "log", 0, "EVI error:"), "EVI error occurred"), FALSE)
      [] OTHER -> s

\* AgentModal.handleSocketMessage, the part that touches the shared handles,
\* the status label and the notices.
HandleSocketMessage(s, type, payload) ==
    CASE type = "audio_output" /\ HasContent(payload) -> PlayAudioResponse(s, payload)
      [] type = "user_interruption" -> UpdateStatus(s, "Interrupted - listening...")
      [] type = "error" -> Notice(Do(s, "log", 0, "EVI error:"), "EVI error occurred")
      [] OTHER -> s

\* handleSocketMessage, case 'user_message': the transcript region.
TranscriptAfter(type, payload) ==
    IF type = "user_message" /\ HasContent(payload) /\ transcriptionEl # NoEl
    THEN payload ELSE transcriptionEl

\* handleSocketMessage, case 'assistant_message': the reply region.
ResponseAfter(type, payload) ==
    IF type = "assistant_message" /\ HasContent(payload) /\ responseEl # NoEl
    THEN payload ELSE responseEl

\* Socket k delivers a message: the 'message' handler of setupSocketHandlers.
SocketMessage(k) ==
    /\ readyState[k] = "open"
    /\ \E type \in MsgTypes, payload \in Payloads :
         /\ Commit(HandleSocketMessage(Do(Do(Cur, "message", k, type),
                                              "payload", k, payload),
                                           type, payload),
                   "socketMessage", k)
         /\ transcriptionEl' = TranscriptAfter(type, payload)
         /\ responseEl' = ResponseAfter(type, payload)
    /\ UNCHANGED <<apiKey, modal, pc, reads>>

\* Blob sizes of a dataavailable event: empty or not.
Sizes == {0, 1}

\* mediaRecorder.ondataavailable: a non-empty chunk starts a FileReader read
\* that remembers the socket current at this moment.  Reads of chunks that
\* captured the same socket behave alike and are kept as one.
OnDataAvailable(size) ==
    IF size > 0 /\ socket # Null
    THEN reads \cup {[sock |-> socket]}
    ELSE reads

\* Recorder r fires dataavailable: a timeslice chunk while recording, or the
\* last chunk after it was stopped.
DataAvailable(r) ==
    /\ rec[r] \in {"recording", "flushing"}
    /\ \E size \in Sizes :
         /\ reads' = OnDataAvailable(size)
         /\ lastOp' = [op |-> "dataAvailable", id |-> r,
                       fx |-> <<Ev("chunk", socket, IF size > 0 THEN "data" ELSE "empty")>>]
    /\ rec' = [rec EXCEPT ![r] = IF @ = "flushing" THEN "inactive" ELSE @]
    /\ UNCHANGED <<apiKey, modal, mediaStream, socket, mediaRecorder, isListening,
                   statusEl, transcriptionEl, responseEl, startButton, pc, tracks,
                   readyState, evClose, evErr, recStream>>
    /\ UNCHANGED ttsVars

\* A faulty onloadend that sends on this.socket instead of the captured one.
SendTargetCurrent(rd, base64Data) ==
    IF base64Data /\ socket # Null /\ readyState[socket] = "open" THEN socket ELSE Null

\* reader.onloadend of read rd: the socket the chunk is sent on, Null when
\* nothing is sent.  base64Data is false when the read produced no data.
SendTarget(rd, base64Data) ==
    IF base64Data /\ rd.sock # Null /\ readyState[rd.sock] = "open" THEN rd.sock ELSE Null

\* The FileReader finishes read rd.
ReadEnd(rd) ==
    /\ rd \in reads
    /\ reads' = reads \ {rd}
    /\ \E base64Data \in BOOLEAN :
         LET k == SendTarget(rd, base64Data)
             ld == Ev("loadend", rd.sock, IF base64Data THEN "data" ELSE "no data")
         IN lastOp' = [op |-> "readEnd", id |-> rd.sock,
                       fx |-> IF k = Null THEN <<ld>>
                              ELSE <<ld, Ev("sendAudioInput", k, readyState[k])>>]
    /\ UNCHANGED <<apiKey, modal, mediaStream, socket, mediaRecorder, isListening,
                   statusEl, transcriptionEl, responseEl, startButton, pc, tracks,
                   readyState, evClose, evErr, rec, recStream>>
    /\ UNCHANGED ttsVars

(***************************************************************************)
(* The text-to-speech service (src/src/HumeService.ts).                    *)
(***************************************************************************)

\* Texts handed to streamTextToSpeech: empty, whitespace only, or words.
Texts == {"", " ", "hi"}

\* A faulty trim that leaves whitespace in place.
TrimNothing(text) == text

\* String.prototype.trim on the texts above.
Trim(text) == IF text = " " THEN "" ELSE text

\* What synthesizeJson resolves with: no generations field, an empty
\* generation list, a first generation without audio, or one with audio.
Responses == {"no generations", "empty generations", "no audio", "audio"}

\* The playback state the handlers of the service share, as one record.
TCur == [audio |-> audio, currentTime |-> currentTime,
         currentAudio |-> currentAudio, fx |-> <<>>]

TCommit(t, op, id) ==
    /\ audio' = t.audio
    /\ currentTime' = t.currentTime
    /\ currentAudio' = t.currentAudio
    /\ lastOp' = [op |-> op, id |-> id, fx |-> t.fx]
    /\ UNCHANGED sessionVars

\* HTMLMediaElement.pause(): a playing element is paused; an element whose
\* play() promise is still pending is paused and that promise will reject.
Pause(t, a) ==
    Do([t EXCEPT !.audio[a] = CASE @ = "playing" -> "paused"
                                [] @ = "starting" -> "aborted"
                                [] OTHER -> @],
       "pause", a, t.audio[a])

\* A faulty stopCurrentAudio that forgets the element without pausing it.
StopCurrentAudioForget(t) ==
    IF t.currentAudio # Null THEN [t EXCEPT !.currentAudio = Null] ELSE t

\* HumeService.stopCurrentAudio
StopCurrentAudio(t) ==
    IF t.currentAudio # Null
    THEN LET a == t.currentAudio
         IN [Do([Pause(t, a) EXCEPT !.currentTime[a] = 0], "seek", a, "0")
               EXCEPT !.currentAudio = Null]
    ELSE t

\* A faulty catch block that shows the notice and swallows the error.
TtsCatchSwallow(t, c, message) ==
    Notice(Do(t, "log", 0, "Hume TTS Error:"), "Error: " \o message)

\* The catch block of streamTextToSpeech: log, notice, rethrow.
TtsCatch(t, c, message) ==
    Do(Notice(Do(t, "log", 0, "Hume TTS Error:"), "Error: " \o message),
       "throw", c, message)

\* The call of streamTextToSpeech that comes next: the least unused one.
NextCall == CHOOSE c \in Calls : tpc[c] = "unused" /\ \A d \in Calls : tpc[d] = "unused" => c <= d

\* HumeService.getClient: the client after the call (it throws on an empty key).
GetClient == IF client = NoClient THEN apiKey ELSE client

\* The catch block of the 'read selection' command around its awaited call
\* of streamTextToSpeech; a direct caller is handed the rejection.
CommandCatch(t, from) ==
    IF from = "command" THEN Do(t, "log", 0, "Read selection error:") ELSE t

\* HumeService.streamTextToSpeech(text) up to its first await, as call c made
\* by from, in a handler that has done t so far and is recorded as op.
StreamTextToSpeechFrom(c, text, from, t, op) ==
    /\ IF text = "" \/ Trim(text) = ""
       THEN /\ TCommit(CommandCatch(Do(t, "throw", c, "Text cannot be empty"), from), op, c)
            /\ tpc' = [tpc EXCEPT ![c] = "rejected"]
            /\ UNCHANGED client
       ELSE IF apiKey = ""
       THEN /\ TCommit(CommandCatch(
                         TtsCatch(t, c, "Hume API key is not configured. Please set it in the plugin settings."),
                         from),
                       op, c)
            /\ tpc' = [tpc EXCEPT ![c] = "rejected"]
            /\ UNCHANGED client
       ELSE /\ client' = GetClient
            /\ TCommit(Do(Notice(StopCurrentAudio(t), "Synthesizing speech..."),
                          "synthesizeJson", c, GetClient),
                       op, c)
            /\ tpc' = [tpc EXCEPT ![c] = "synth"]
    /\ caller' = [caller EXCEPT ![c] = from]

\* HumeService.streamTextToSpeech called directly, up to its first await.
StreamTextToSpeech(c) ==
    /\ loaded
    /\ tpc[c] = "unused" /\ c = NextCall
    /\ \E text \in Texts :
         StreamTextToSpeechFrom(c, text, "direct", Do(TCur, "text", c, text),
                                "streamTextToSpeech")
    /\ UNCHANGED <<apiKey, saving, loaded>>

\* The catch block of streamTextToSpeech after an await of call c, and the
\* catch block of the command when the command made the call.
Rejected(t, c, message) == CommandCatch(TtsCatch(t, c, message), caller[c])

\* HumeService.playAudio for call c: a new element becomes the current one
\* and play() is called on it.
PlayAudio(t, c) ==
    Do(Do([t EXCEPT !.audio[c] = "starting", !.currentAudio = c], "newAudio", c, ""),
       "play", c, "")

\* synthesizeJson resolves for call c.
SynthReturns(c) ==
    /\ tpc[c] = "synth"
    /\ \E resp \in Responses :
         CASE resp = "audio" ->
                /\ TCommit(PlayAudio(Do(TCur, "response", c, resp), c), "synthReturns", c)
                /\ tpc' = [tpc EXCEPT ![c] = "play"]
           [] resp = "no audio" ->
                /\ TCommit(Rejected(Do(TCur, "response", c, resp), c, "No audio data in response"), "synthReturns", c)
                /\ tpc' = [tpc EXCEPT ![c] = "rejected"]
           [] OTHER ->
                /\ TCommit(Rejected(Do(TCur, "response", c, resp), c, "No audio was generated"), "synthReturns", c)
                /\ tpc' = [tpc EXCEPT ![c] = "rejected"]
    /\ UNCHANGED <<apiKey, client, saving, loaded, caller>>

\* synthesizeJson rejects for call c (network or API error).
SynthFails(c) ==
    /\ tpc[c] = "synth"
    /\ TCommit(Rejected(TCur, c, "request failed"), "synthFails", c)
    /\ tpc' = [tpc EXCEPT ![c] = "rejected"]
    /\ UNCHANGED <<apiKey, client, saving, loaded, caller>>

\* Faulty playAudio handlers that settle the promise and keep currentAudio.
SettleKeepCurrent(t, a, how, message) ==
    LET t0 == Do(t, "revoke", a, "")
    IN IF tpc[a] # "play" THEN t0
       ELSE IF how = "resolved" THEN Do(t0, "resolve", a, "")
       ELSE Rejected(t0, a, message)

\* A handler of playAudio settles the promise of call a: the first settlement
\* counts, and a rejection runs the catch block of streamTextToSpeech.
Settle(t, a, how, message) ==
    LET t0 == Do([t EXCEPT !.currentAudio = Null], "revoke", a, "")
    IN IF tpc[a] # "play" THEN t0
       ELSE IF how = "resolved" THEN Do(t0, "resolve", a, "")
       ELSE Rejected(t0, a, message)

SettledPc(a, how) == [tpc EXCEPT ![a] = IF @ = "play" THEN how ELSE @]

\* The play() promise of element a resolves: playback has begun.
PlayStarted(a) ==
    /\ audio[a] = "starting"
    /\ TCommit([TCur EXCEPT !.audio[a] = "playing", !.currentTime[a] = 1], "playStarted", a)
    /\ UNCHANGED <<apiKey, client, saving, loaded, tpc, caller>>

\* The play() promise of element a rejects (playback not allowed, or paused
\* before it began): the catch handler of playAudio.
PlayRejected(a) ==
    /\ audio[a] \in {"starting", "aborted"}
    /\ TCommit(Settle([TCur EXCEPT !.audio[a] = IF @ = "aborted" THEN "paused" ELSE "rejected"],
                      a, "rejected", "play failed"),
               "playRejected", a)
    /\ tpc' = SettledPc(a, "rejected")
    /\ UNCHANGED <<apiKey, client, saving, loaded, caller>>

\* Element a plays to its end: audio.onended.
AudioEnded(a) ==
    /\ audio[a] = "playing"
    /\ TCommit(Settle([TCur EXCEPT !.audio[a] = "ended"], a, "resolved", ""), "audioEnded", a)
    /\ tpc' = SettledPc(a, "resolved")
    /\ UNCHANGED <<apiKey, client, saving, loaded, caller>>

\* Element a fails to load or decode: audio.onerror (a pending play() promise
\* rejects with it).
AudioError(a) ==
    /\ audio[a] \in {"starting", "playing"}
    /\ TCommit(Settle([TCur EXCEPT !.audio[a] = "error"], a, "rejected", "Failed to play audio"),
               "audioError", a)
    /\ tpc' = SettledPc(a, "rejected")
    /\ UNCHANGED <<apiKey, client, saving, loaded, caller>>

\* EmpathicNarratorPlugin.onunload
Onunload ==
    /\ loaded
    /\ loaded' = FALSE
    /\ TCommit(StopCurrentAudio(TCur), "onunload", Null)
    /\ UNCHANGED <<apiKey, client, saving, tpc, caller>>

(***************************************************************************)
(* The plugin's triggers (src/src/main.ts).                                *)
(***************************************************************************)

\* A faulty gate that takes any credential for present.
HasCredentialsAlways == TRUE

\* HumeService.hasCredentials
HasCredentials == apiKey # ""

\* The ribbon icon's callback and the callback of the 'open voice brainstorm'
\* command: new AgentModal(...).open() behind the credential gate.  The modal
\* the model follows is the first one opened.
OpenVoiceSession(trigger) ==
    /\ loaded
    /\ IF ~HasCredentials
       THEN /\ lastOp' = [op |-> trigger, id |-> Null,
                          fx |-> <<Ev("notice", 0, "Please configure your Hume API credentials in settings.")>>]
            /\ UNCHANGED <<modal, statusEl, startButton, transcriptionEl, responseEl>>
       ELSE /\ lastOp' = [op |-> trigger, id |-> Null, fx |-> <<Ev("openModal", 0, "")>>]
            /\ IF modal = "constructed"
               THEN /\ modal' = "open"
                    /\ statusEl' = "Ready to start"
                    /\ startButton' = "Start Listening"
                    /\ transcriptionEl' = "Waiting for input..."
                    /\ responseEl' = "Waiting for response..."
               ELSE UNCHANGED <<modal, statusEl, startButton, transcriptionEl, responseEl>>
    /\ UNCHANGED <<apiKey, mediaStream, socket, mediaRecorder, isListening, pc,
                   tracks, readyState, evClose, evErr, rec, recStream, reads>>
    /\ UNCHANGED ttsVars

RibbonClick == OpenVoiceSession("ribbon")

OpenVoiceCommand == OpenVoiceSession("open-voice-brainstorm")

\* The editorCallback of the 'read selection with emotion' command, up to
\* the first await of the call it makes.
ReadSelectionCommand ==
    /\ loaded
    /\ \E selection \in Texts :
         LET t == Do(TCur, "selection", 0, selection)
         IN IF selection = "" \/ Trim(selection) = ""
            THEN /\ TCommit(Notice(t, "Please select some text to read."),
                            "read-selection", Null)
                 /\ UNCHANGED <<client, tpc, caller>>
            ELSE IF ~HasCredentials
            THEN /\ TCommit(Notice(t, "Please configure your Hume API credentials in settings."),
                            "read-selection", Null)
                 /\ UNCHANGED <<client, tpc, caller>>
            ELSE /\ \E c \in Calls : tpc[c] = "unused"
                 /\ StreamTextToSpeechFrom(NextCall, selection, "command", t, "read-selection")
    /\ UNCHANGED <<apiKey, saving, loaded>>

Init == ModalInit /\ ServiceInit

\* The session lifecycle: every handler that touches the session's handles.
Lifecycle ==
    \/ OnOpen
    \/ OnClose
    \/ ToggleListening
    \/ \E i \in Ids : MicGranted(i)
    \/ \E i \in Ids : MicDenied(i)
    \/ \E k \in Ids : SocketOpen(k)
    \/ \E k \in Ids : SocketError(k)
    \/ \E k \in Ids : SocketClose(k)

Next == Lifecycle

\* The voice session: every interleaving of its handlers.
Spec == Init /\ [][Next]_vars

StreamNext ==
    \/ Lifecycle
    \/ \E r \in Ids : DataAvailable(r)
    \/ \E k \in Ids : ReadEnd([sock |-> k])

\* The voice session with the outbound audio chunks.
SpecStream == Init /\ [][StreamNext]_vars

\* A press of the start/stop button within the budget of FewStarts.
ToggleListeningFew ==
    /\ isListening \/ apiKey = "" \/ \E i \in 1..FewStarts : pc[i] = "unused"
    /\ ToggleListening

LifecycleFew ==
    \/ OnOpen
    \/ OnClose
    \/ ToggleListeningFew
    \/ \E i \in Ids : MicGranted(i)
    \/ \E i \in Ids : MicDenied(i)
    \/ \E k \in Ids : SocketOpen(k)
    \/ \E k \in Ids : SocketError(k)
    \/ \E k \in Ids : SocketClose(k)

KeysNext ==
    \/ LifecycleFew
    \/ \E k \in Keys : SetApiKey(k)
    \/ SaveSettings

\* The voice session with edits of the credential.
SpecKeys == Init /\ [][KeysNext]_vars

MsgNext ==
    \/ LifecycleFew
    \/ \E k \in Ids : SocketMessage(k)

\* The voice session with the inbound messages.
SpecMsg == Init /\ [][MsgNext]_vars

TTSNext ==
    \/ \E c \in Calls : StreamTextToSpeech(c)
    \/ \E c \in Calls : SynthReturns(c)
    \/ \E c \in Calls : SynthFails(c)
    \/ \E a \in Calls : PlayStarted(a)
    \/ \E a \in Calls : PlayRejected(a)
    \/ \E a \in Calls : AudioEnded(a)
    \/ \E a \in Calls : AudioError(a)
    \/ Onunload
    \/ \E k \in Keys : SetApiKey(k)
    \/ SaveSettings

\* The text-to-speech service with edits of the credential.
SpecTTS == Init /\ [][TTSNext]_vars

HostNext ==
    \/ RibbonClick
    \/ OpenVoiceCommand
    \/ ReadSelectionCommand
    \/ \E c \in Calls : SynthReturns(c)
    \/ \E c \in Calls : SynthFails(c)
    \/ \E a \in Calls : PlayStarted(a)
    \/ \E a \in Calls : PlayRejected(a)
    \/ \E a \in Calls : AudioEnded(a)
    \/ \E a \in Calls : AudioError(a)
    \/ Onunload
    \/ \E k \in Keys : SetApiKey(k)
    \/ SaveSettings

\* The plugin as its user drives it: the three triggers, the service's
\* callbacks and edits of the credential.
SpecHost == Init /\ [][HostNext]_vars

(***************************************************************************)
(* Properties.                                                             *)
(***************************************************************************)

\* What the last handler did.
Fx == lastOp.fx
Did(e) == \E n \in 1..Len(Fx) : Fx[n].e = e
DidTxt(e, txt) == \E n \in 1..Len(Fx) : Fx[n].e = e /\ Fx[n].txt = txt
HandlesAbsent == mediaStream = Null /\ socket = Null /\ mediaRecorder = Null
LiveStreams == {m \in Ids : tracks[m] = "live"}
OpenSockets == {k \in Ids : readyState[k] \in {"connecting", "open"}}
Recording == {r \in Ids : rec[r] = "recording"}

\* C1: a start attempt made while the credential is empty requests no
\* microphone and creates or connects no socket, shows the 'configure' notice
\* and leaves mediaStream, socket, mediaRecorder and isListening as they were.
C1_NoCredentialNoRequest ==
    [][(lastOp'.op = "startListening" /\ apiKey' = "")
         => /\ lastOp'.fx = <<Ev("notice", 0, "Please configure your Hume API key in settings.")>>
            /\ UNCHANGED <<mediaStream, socket, mediaRecorder, isListening>>
            /\ UNCHANGED <<pc, tracks, readyState, rec>>]_vars

\* C1 witness: the start button was pressed with an empty credential after a
\* session had already run.
C1_Witness ==
    /\ lastOp.op = "startListening" /\ apiKey = ""
    /\ Did("notice")
    /\ \E m \in Ids : tracks[m] = "stopped"

\* C2: stopListening is idempotent.  From every reachable state (never
\* started included) one call leaves the three handles absent and isListening
\* false, and a second call right after it stops no recorder, stops no track,
\* closes no socket and changes nothing.
C2_StopIdempotent ==
    \A sync1 \in BOOLEAN, sync2 \in BOOLEAN :
        LET a == [StopListening(Cur, sync1) EXCEPT !.fx = <<>>]
            b == StopListening(a, sync2)
        IN /\ a.mediaStream = Null /\ a.socket = Null /\ a.mediaRecorder = Null
           /\ ~a.isListening
           /\ [b EXCEPT !.fx = <<>>] = a
           /\ \A n \in 1..Len(b.fx) : b.fx[n].e = "status"

\* C2 witness: onClose ran stopListening on a session that had already been
\* stopped (its tracks stopped, its socket closed) and released nothing.
C2_Witness ==
    /\ lastOp.op = "onClose"
    /\ ~Did("trackStop") /\ ~Did("close") /\ ~Did("recStop")
    /\ \E m \in Ids : tracks[m] = "stopped"
    /\ \E k \in Ids : readyState[k] = "closed"
    /\ HandlesAbsent /\ ~isListening

\* C3: when startListening returns after a failure, a notice was shown, the
\* status label was updated, the stream the invocation acquired has its tracks
\* stopped, the socket it created is closed, and the three handles are absent
\* with isListening false.
C3_FailureTearsDown ==
    lastOp.op = "startFailed"
      => /\ Did("notice") /\ Did("status")
         /\ tracks[lastOp.id] # "live"
         /\ readyState[lastOp.id] \notin {"connecting", "open"}
         /\ HandlesAbsent /\ ~isListening

\* C3 failing state: an invocation returned through its catch block while the
\* stream it had acquired is still live.
C3_Leak ==
    /\ lastOp.op = "startFailed"
    /\ tracks[lastOp.id] = "live"
    /\ HandlesAbsent /\ ~isListening

\* C4: once onClose has run and no startListening invocation is suspended
\* any more, no track is live, no socket is open or connecting, no recorder is
\* recording and isListening is false.
C4_CloseTearsDown ==
    (modal = "closed" /\ InFlight = {})
      => /\ LiveStreams = {} /\ OpenSockets = {} /\ Recording = {}
         /\ ~isListening

\* C4 failing state: the modal is closed, nothing is pending, and the session
\* that started after onClose is listening.
C4_ListeningAfterClose ==
    /\ modal = "closed" /\ InFlight = {}
    /\ isListening /\ LiveStreams # {} /\ OpenSockets # {} /\ Recording # {}

\* C5: at most one stream has live tracks and at most one socket is unclosed,
\* and each of them is the one the modal holds.
C5_OneSession ==
    /\ Cardinality(LiveStreams) <= 1
    /\ Cardinality(OpenSockets) <= 1
    /\ \A m \in LiveStreams : m = mediaStream
    /\ \A k \in OpenSockets : k = socket

\* C5 failing state: two streams are live and two sockets are connecting, and
\* the modal holds only the later of each.
C5_TwoSessions ==
    /\ Cardinality(LiveStreams) = 2
    /\ Cardinality(OpenSockets) = 2
    /\ \E m \in LiveStreams : m # mediaStream

\* Steps that delivered a socket's 'close' event, or its 'close' or 'error'
\* event, to the handlers of setupSocketHandlers.
CloseEventStep == lastOp'.op = "socketClose"
SocketEventStep == lastOp'.op \in {"socketClose", "socketError"}
Connects(op) ==
    \E n \in 1..Len(op.fx) : op.fx[n].e \in {"newSocket", "connect", "getUserMedia"}

\* A 'close' event handled while listening stops the recorder, the tracks and
\* the socket the modal held, and leaves the handles absent, isListening false.
CloseForcesStop ==
    (isListening /\ CloseEventStep)
      => /\ HandlesAbsent' /\ ~isListening'
         /\ mediaRecorder # Null => rec'[mediaRecorder] # "recording"
         /\ mediaStream # Null => tracks'[mediaStream] = "stopped"
         /\ socket # Null => readyState'[socket] = "closed"

\* C6: a close event handled while listening forces a full stop; the handlers
\* of the socket's close and error events request no microphone and create or
\* connect no socket; and every microphone request or socket connect is made
\* either by the press of start itself or by the continuation of the
\* startListening invocation that a press began (no reconnection, no retry).
C6_NoReconnect ==
    [][/\ CloseForcesStop
       /\ SocketEventStep => ~Connects(lastOp')
       /\ Connects(lastOp')
            => \/ lastOp'.op = "startListening" /\ pc'[lastOp'.id] = "mic"
                  /\ pc[lastOp'.id] = "unused"
               \/ lastOp'.op \in {"micGranted", "startFailed"}
                  /\ pc[lastOp'.id] = "mic"]_vars

\* C6 witness: a close event arrived while listening and stopped the session.
C6_Witness ==
    /\ lastOp.op = "socketClose"
    /\ Did("recStop") /\ Did("trackStop") /\ DidTxt("status", "Stopped")
    /\ HandlesAbsent /\ ~isListening

\* C7: after the 'error' event of the session's socket has been handled while
\* listening, a notice was shown and the recorder, the stream and the socket
\* are released, with isListening false.
C7_ErrorTearsDown ==
    [][(isListening /\ lastOp'.op = "socketError" /\ lastOp'.id = socket)
         => /\ \E n \in 1..Len(lastOp'.fx) : lastOp'.fx[n].e = "notice"
            /\ HandlesAbsent' /\ ~isListening'
            /\ LiveStreams' = {} /\ Recording' = {}]_vars

\* C7 failing state: the 'error' handler of the session's socket has run while
\* listening, and the session is as it was: handles held, tracks live,
\* recorder recording, isListening true.
C7_StillListening ==
    /\ lastOp.op = "socketError"
    /\ DidTxt("notice", "Connection error occurred")
    /\ isListening /\ socket = lastOp.id
    /\ mediaStream \in LiveStreams /\ mediaRecorder \in Recording

\* C8: a dataavailable event starts a read only for a non-empty chunk, and
\* the read remembers the socket that is current at that moment; when a read
\* ends, sendAudioInput is called at most once, only with data, only on the
\* socket the read remembered, and only while that socket's readyState is
\* open (so never after stopListening closed it, never on a later socket).
C8_SendOnlyOpenCaptured ==
    [][/\ lastOp'.op = "dataAvailable"
            => /\ reads' \subseteq reads \cup {[sock |-> socket]}
               /\ lastOp'.fx[1].txt = "empty" => reads' = reads
       /\ lastOp'.op = "readEnd"
            => /\ lastOp'.id \in {rd.sock : rd \in reads}
               /\ \A n \in 1..Len(lastOp'.fx) :
                    lastOp'.fx[n].e = "sendAudioInput"
                      => /\ n = 2 /\ lastOp'.fx[1].txt = "data"
                         /\ lastOp'.fx[n].id = lastOp'.id
                         /\ lastOp'.fx[n].txt = "open"
                         /\ readyState[lastOp'.fx[n].id] = "open"]_vars

\* C8 witness: the read of a chunk captured in an earlier session completed
\* with data after stopListening had closed that session's socket, while a
\* later session's socket was open and listening: nothing was sent.
C8_Witness ==
    /\ lastOp.op = "readEnd"
    /\ lastOp.fx = <<Ev("loadend", lastOp.id, "data")>>
    /\ readyState[lastOp.id] = "closed"
    /\ tracks[lastOp.id] = "stopped" /\ rec[lastOp.id] = "inactive"
    /\ isListening /\ socket # Null /\ socket # lastOp.id
    /\ readyState[socket] = "open"
    /\ modal = "open" /\ LiveStreams = {socket}

\* The tag and the payload of the message the last handler received.
MsgType(op) == op.fx[1].txt
MsgPayload(op) == op.fx[2].txt
OnlyReceived(op) == Len(op.fx) = 2

\* C9: an inbound message is dispatched by its tag and changes only its own
\* target.  user_message with non-empty content sets only the transcript
\* region; assistant_message with non-empty content sets only the reply
\* region, to that content; user_interruption changes only the status label;
\* 'error' shows a notice and ends nothing.  No message changes mediaStream,
\* socket, mediaRecorder, isListening or the state of a track, a socket or a
\* recorder.  A content message whose content is missing or empty, and a
\* message with another tag, change nothing and have no effect.
C9_MessageDispatch ==
    [][lastOp'.op = "socketMessage"
         => LET type == MsgType(lastOp')
                payload == MsgPayload(lastOp')
            IN /\ UNCHANGED <<mediaStream, socket, mediaRecorder, isListening>>
               /\ UNCHANGED <<tracks, readyState, rec, pc, startButton, evClose>>
               /\ (type = "user_message" /\ HasContent(payload))
                    => /\ transcriptionEl' = payload
                       /\ UNCHANGED <<responseEl, statusEl>>
                       /\ OnlyReceived(lastOp')
               /\ (type = "assistant_message" /\ HasContent(payload))
                    => /\ responseEl' = payload
                       /\ UNCHANGED <<transcriptionEl, statusEl>>
                       /\ OnlyReceived(lastOp')
               /\ type = "user_interruption"
                    => /\ statusEl' = "Interrupted - listening..."
                       /\ UNCHANGED <<transcriptionEl, responseEl>>
                       /\ \A n \in 3..Len(lastOp'.fx) : lastOp'.fx[n].e = "status"
               /\ type = "error"
                    => /\ \E n \in 3..Len(lastOp'.fx) : lastOp'.fx[n].e = "notice"
                       /\ \A n \in 3..Len(lastOp'.fx) : lastOp'.fx[n].e \in {"log", "notice"}
                       /\ UNCHANGED <<transcriptionEl, responseEl, statusEl>>
               /\ type = "audio_output"
                    => UNCHANGED <<transcriptionEl, responseEl, statusEl>>
               /\ \/ type \in {"user_message", "assistant_message", "audio_output"}
                     /\ ~HasContent(payload)
                  \/ type \notin {"user_message", "assistant_message", "audio_output",
                                  "user_interruption", "error"}
                    => /\ OnlyReceived(lastOp')
                       /\ UNCHANGED <<transcriptionEl, responseEl, statusEl>>]_vars

\* C9 witness: during a listening session an assistant_message with content
\* "Hello" has set the reply region, after an earlier user_message had set the
\* transcript region.
C9_Witness ==
    /\ lastOp.op = "socketMessage"
    /\ MsgType(lastOp) = "assistant_message" /\ MsgPayload(lastOp) = "Hello"
    /\ responseEl = "Hello" /\ transcriptionEl = "Hello"
    /\ isListening /\ socket = lastOp.id /\ readyState[socket] = "open"
    /\ modal = "open"

\* The audio elements that sound or are about to: play() was called and the
\* element was neither paused nor ended nor failed.
Playing == {a \in Calls : audio[a] \in {"starting", "playing"}}
Stopped == {a \in Calls : audio[a] \in {"paused", "aborted"}}

\* The step is a streamTextToSpeech call that issues its synthesis request.
IssuesSynthesis ==
    /\ lastOp'.op = "streamTextToSpeech"
    /\ \E n \in 1..Len(lastOp'.fx) : lastOp'.fx[n].e = "synthesizeJson"

\* C10: when a streamTextToSpeech call is made while the audio of the
\* previous request is the current one and playing, that audio is paused, its
\* position is reset to 0 and currentAudio is cleared, all before the call
\* issues its synthesis request; and an audio stopped this way never plays
\* again, so it is silent when the new request's audio starts.
C10_SecondStopsFirst ==
    [][/\ (IssuesSynthesis /\ currentAudio \in Playing)
            => /\ currentAudio \in Stopped'
               /\ currentTime'[currentAudio] = 0
               /\ currentAudio' = Null
               /\ \E i, j \in 1..Len(lastOp'.fx) :
                    /\ i < j
                    /\ lastOp'.fx[i].e = "pause" /\ lastOp'.fx[i].id = currentAudio
                    /\ lastOp'.fx[j].e = "synthesizeJson"
       /\ Stopped \subseteq Stopped']_vars

\* C10 witness: the second request's audio has just been started while the
\* first request's audio, stopped by the second request in mid-play, stays
\* paused at position 0.
C10_Witness ==
    /\ lastOp.op = "synthReturns" /\ Did("play")
    /\ currentAudio = lastOp.id /\ audio[currentAudio] = "starting"
    /\ \E a \in Calls :
         /\ a < currentAudio
         /\ audio[a] = "paused" /\ currentTime[a] = 0
         /\ tpc[a] = "play"

\* C11: at most one audio element created by the service is playing.
C11_OnePlayback == Cardinality(Playing) <= 1

\* C11 failing state: two calls were both suspended in the synthesis round
\* trip; both responses arrived and both elements are playing, and only the
\* later one is the current audio.
C11_TwoPlaying ==
    /\ Cardinality({a \in Calls : audio[a] = "playing"}) = 2
    /\ currentAudio # Null
    /\ \E a \in Calls : audio[a] = "playing" /\ a # currentAudio

\* The text the last streamTextToSpeech call was given.
CallText(op) == op.fx[1].txt

\* C12: a streamTextToSpeech call with an empty or whitespace-only text
\* rejects at once: it issues no synthesis request, constructs no client,
\* shows nothing, and leaves currentAudio and every audio element as they were.
C12_BlankRejected ==
    [][(lastOp'.op = "streamTextToSpeech" /\ CallText(lastOp') \in {"", " "})
         => /\ lastOp'.fx = <<Ev("text", lastOp'.id, CallText(lastOp')),
                              Ev("throw", lastOp'.id, "Text cannot be empty")>>
            /\ tpc'[lastOp'.id] = "rejected"
            /\ UNCHANGED <<client, audio, currentTime, currentAudio>>]_vars

\* C12 witness: a whitespace-only text was rejected while an earlier request's
\* audio was playing and no client had been constructed since the last save.
C12_Witness ==
    /\ lastOp.op = "streamTextToSpeech" /\ CallText(lastOp) = " "
    /\ tpc[lastOp.id] = "rejected"
    /\ currentAudio # Null /\ audio[currentAudio] = "playing"
    /\ client = NoClient /\ apiKey # ""

\* The response the last synthReturns step received, and the error
\* streamTextToSpeech raises for a response without audio.
Response(op) == op.fx[1].txt
NoAudioError(resp) ==
    IF resp = "no audio" THEN "No audio data in response" ELSE "No audio was generated"

\* C13: when synthesizeJson resolves without a generation list, with an empty
\* one, or with a first generation that lacks audio, streamTextToSpeech creates
\* and plays no audio element and leaves currentAudio alone; it logs, shows the
\* notice "Error: " followed by the error's message, and then rethrows that
\* same error, so the call is rejected.
C13_NoAudioRejected ==
    [][(lastOp'.op = "synthReturns" /\ Response(lastOp') # "audio")
         => LET c == lastOp'.id
                message == NoAudioError(Response(lastOp'))
            IN /\ lastOp'.fx = <<Ev("response", c, Response(lastOp')),
                                 Ev("log", 0, "Hume TTS Error:"),
                                 Ev("notice", 0, "Error: " \o message),
                                 Ev("throw", c, message)>>
               /\ tpc[c] = "synth" /\ tpc'[c] = "rejected"
               /\ UNCHANGED <<audio, currentTime, currentAudio, client>>]_vars

\* C13 witness: a call whose response had an empty generation list was
\* rejected, with no element of its own, while another call's audio plays on.
C13_Witness ==
    /\ lastOp.op = "synthReturns" /\ Response(lastOp) = "empty generations"
    /\ tpc[lastOp.id] = "rejected" /\ audio[lastOp.id] = "none"
    /\ currentAudio # Null /\ currentAudio # lastOp.id
    /\ audio[currentAudio] = "playing"

\* The calls of streamTextToSpeech that have settled.
Settled == {c \in Calls : tpc[c] \in {"resolved", "rejected"}}

\* C14: a response whose first generation carries audio makes the call create
\* its element and call play() on it, and the call stays pending.  The call
\* resolves only in the step in which its own element reports 'ended'; when the
\* element reports an error or its play() promise rejects, the pending call is
\* rejected.  In the step in which the call settles currentAudio is cleared,
\* and currentAudio never refers to the element of a settled call.
C14_PlaybackSettles ==
    [][/\ (lastOp'.op = "synthReturns" /\ Response(lastOp') = "audio")
            => LET c == lastOp'.id
               IN /\ lastOp'.fx = <<Ev("response", c, "audio"), Ev("newAudio", c, ""),
                                    Ev("play", c, "")>>
                  /\ audio'[c] = "starting" /\ currentAudio' = c
                  /\ tpc'[c] = "play"
       /\ \A c \in Calls :
            (tpc'[c] = "resolved" /\ tpc[c] # "resolved")
              => /\ tpc[c] = "play"
                 /\ lastOp'.op = "audioEnded" /\ lastOp'.id = c
                 /\ audio[c] = "playing" /\ audio'[c] = "ended"
                 /\ currentAudio' = Null
       /\ (lastOp'.op \in {"audioError", "playRejected"} /\ tpc[lastOp'.id] = "play")
            => /\ tpc'[lastOp'.id] = "rejected"
               /\ \E n \in 1..Len(lastOp'.fx) : lastOp'.fx[n].e = "notice"
               /\ currentAudio' = Null
       /\ currentAudio' \notin Settled']_vars

\* C14 witness: the second call's audio played to its end and the call
\* resolved, after the first call had been rejected by a playback error.
C14_Witness ==
    /\ lastOp.op = "audioEnded" /\ Did("resolve")
    /\ tpc[lastOp.id] = "resolved" /\ audio[lastOp.id] = "ended"
    /\ currentAudio = Null
    /\ \E c \in Calls : tpc[c] = "rejected" /\ audio[c] = "error"

\* What the last handler did, looked up in a given history record.
Has(op, e) == \E n \in 1..Len(op.fx) : op.fx[n].e = e
HasTxt(op, e, txt) == \E n \in 1..Len(op.fx) : op.fx[n].e = e /\ op.fx[n].txt = txt

\* C15: each of the three triggers is gated on the credential.  With an empty
\* credential the ribbon icon and the 'open voice brainstorm' command only show
\* "Please configure your Hume API credentials in settings." and open no modal;
\* the 'read selection' command with a non-blank selection shows the same
\* notice and makes no call; and with a blank selection it makes no call
\* whatever the credential is.  No such step issues a synthesis request.
C15_TriggersGated ==
    [][/\ (lastOp'.op \in {"ribbon", "open-voice-brainstorm"} /\ apiKey = "")
            => /\ lastOp'.fx = <<Ev("notice", 0, "Please configure your Hume API credentials in settings.")>>
               /\ UNCHANGED <<sessionVars, ttsVars>>
       /\ (lastOp'.op = "read-selection" /\ lastOp'.fx[1].txt \notin {"", " "} /\ apiKey = "")
            => /\ HasTxt(lastOp', "notice", "Please configure your Hume API credentials in settings.")
               /\ ~Has(lastOp', "synthesizeJson") /\ ~Has(lastOp', "openModal")
               /\ UNCHANGED <<sessionVars, ttsVars>>
       /\ (lastOp'.op = "read-selection" /\ lastOp'.fx[1].txt \in {"", " "})
            => /\ ~Has(lastOp', "synthesizeJson")
               /\ UNCHANGED <<sessionVars, ttsVars>>]_vars

\* C15 witness: after the credential was emptied, the 'read selection' command
\* with a selection showed the notice while the audio of an earlier command
\* kept playing.
C15_Witness ==
    /\ lastOp.op = "read-selection" /\ lastOp.fx[1].txt = "hi"
    /\ DidTxt("notice", "Please configure your Hume API credentials in settings.")
    /\ apiKey = ""
    /\ currentAudio # Null /\ audio[currentAudio] = "playing"
    /\ modal = "open"

\* In the record op of a handler, every e1 effect comes before every e2 effect.
Before(op, e1, e2) ==
    \A i, j \in 1..Len(op.fx) : (op.fx[i].e = e1 /\ op.fx[j].e = e2) => i < j
HasOn(op, e, id) == \E n \in 1..Len(op.fx) : op.fx[n].e = e /\ op.fx[n].id = id

\* C16: whenever a handler releases resources, the recorder is stopped before
\* the stream's tracks and the tracks before the socket is closed.  A recorder
\* is stopped only while it is recording, tracks are stopped and a socket is
\* closed only for the stream and the socket the modal holds (or has just
\* acquired in the same handler).  A stop by the button or by onClose stops the
\* held recorder exactly when it is recording, the held stream's tracks
\* exactly when a stream is held, closes the held socket exactly when a socket
\* is held, and every handler that ran stopListening leaves all three absent.
C16_StopOrder ==
    [][/\ Before(lastOp', "recStop", "trackStop")
       /\ Before(lastOp', "recStop", "close")
       /\ Before(lastOp', "trackStop", "close")
       /\ \A n \in 1..Len(lastOp'.fx) :
            LET ev == lastOp'.fx[n]
            IN /\ ev.e = "recStop" => rec[ev.id] = "recording"
               /\ ev.e = "trackStop" => (ev.id = mediaStream \/ tracks[ev.id] = "none")
               /\ ev.e = "close" => (ev.id = socket \/ readyState[ev.id] = "none")
       /\ lastOp'.op \in {"stopListening", "onClose"}
            => /\ Has(lastOp', "recStop")
                    <=> (mediaRecorder # Null /\ rec[mediaRecorder] = "recording")
               /\ Has(lastOp', "recStop") => HasOn(lastOp', "recStop", mediaRecorder)
               /\ Has(lastOp', "trackStop") <=> mediaStream # Null
               /\ Has(lastOp', "trackStop") => HasOn(lastOp', "trackStop", mediaStream)
               /\ Has(lastOp', "close") <=> socket # Null
               /\ Has(lastOp', "close") => HasOn(lastOp', "close", socket)
       /\ lastOp'.op \in {"stopListening", "onClose", "startFailed"}
            => HandlesAbsent' /\ ~isListening']_vars

\* C16 witness: the stop button released a listening session: recorder, then
\* tracks, then socket.
C16_Witness ==
    /\ lastOp.op = "stopListening"
    /\ Did("recStop") /\ Did("trackStop") /\ Did("close")
    /\ HandlesAbsent /\ ~isListening
    /\ \E k \in Ids : readyState[k] = "closed" /\ tracks[k] = "stopped"

\* C17: every synthesis request is issued through a client that was
\* constructed from the credential the settings hold when the request is made.
C17_FreshClient ==
    [][\A n \in 1..Len(lastOp'.fx) :
          lastOp'.fx[n].e = "synthesizeJson" => lastOp'.fx[n].txt = apiKey]_vars

\* C17 failing state: a request has just been issued through a client built
\* from a credential the settings no longer hold, while the save that follows
\* the edit is still pending.
C17_StaleClient ==
    /\ Did("synthesizeJson")
    /\ saving
    /\ \E n \in 1..Len(Fx) : Fx[n].e = "synthesizeJson" /\ Fx[n].txt # apiKey

\* C18: every handler in which streamTextToSpeech or startListening ends in
\* an error writes a console log and shows a notice, and an error thrown to the
\* 'read selection' command is caught there (logged after the throw), so it
\* does not leave the command.
C18_ErrorsHandled ==
    [][/\ (Has(lastOp', "throw") \/ lastOp'.op = "startFailed")
            => Has(lastOp', "log") /\ Has(lastOp', "notice")
       /\ \A n \in 1..Len(lastOp'.fx) :
            (lastOp'.fx[n].e = "throw" /\ caller'[lastOp'.fx[n].id] = "command")
                => \E m \in (n+1)..Len(lastOp'.fx) :
                      /\ lastOp'.fx[m].e = "log"
                      /\ lastOp'.fx[m].txt = "Read selection error:"]_vars

\* C18 failing state: a call with blank text has been rejected and its handler
\* wrote no log and showed no notice.
C18_SilentRejection ==
    /\ DidTxt("throw", "Text cannot be empty")
    /\ ~Did("log") /\ ~Did("notice")
    /\ \E c \in Calls : tpc[c] = "rejected" /\ caller[c] = "direct"

\* C19: a start invocation creates its socket only in the handler that
\* resumes it with the microphone stream, registers the socket's handlers
\* before it calls connect, and starts a recorder only once its socket has
\* opened; isListening turns true only in a handler that started a recorder;
\* and a non-empty chunk is never captured for a socket that is still
\* connecting.
C19_StartOrder ==
    [][/\ \A i \in Ids :
            /\ HasOn(lastOp', "newSocket", i)
                 => pc[i] = "mic" /\ tracks'[i] # "none"
            /\ HasOn(lastOp', "connect", i) => HasOn(lastOp', "handlers", i)
            /\ HasOn(lastOp', "recStart", i) => readyState'[i] = "open"
       /\ Before(lastOp', "newSocket", "handlers")
       /\ Before(lastOp', "handlers", "connect")
       /\ (isListening' /\ ~isListening) => Has(lastOp', "recStart")
       /\ \A rd \in reads' \ reads : readyState[rd.sock] # "connecting"]_vars

\* C19 failing state: a recorder is running, the session counts as listening,
\* and a chunk has been captured for the current socket, which is still
\* connecting.
C19_ChunkBeforeOpen ==
    /\ isListening
    /\ lastOp.op = "dataAvailable"
    /\ socket # Null /\ readyState[socket] = "connecting"
    /\ [sock |-> socket] \in reads

\* C20: whenever isListening is true, or the status line reads 'Listening...',
\* or the button reads 'Stop Listening', the modal holds a stream, a socket
\* and a recorder.
C20_ListeningHasHandles ==
    (isListening \/ statusEl = "Listening..." \/ startButton = "Stop Listening")
        => (mediaStream # Null /\ socket # Null /\ mediaRecorder # Null)

\* C20 failing state: the modal is open and counts as listening, shows
\* 'Listening...', and holds no stream, no socket and no recorder, after a
\* start that failed while another was suspended.
C20_ListeningWithoutHandles ==
    /\ modal = "open"
    /\ isListening /\ statusEl = "Listening..."
    /\ HandlesAbsent
    /\ Recording = {}

\* What the platform owes the service: a synthesis request returns or fails,
\* a play() promise resolves or rejects, and an element that is left playing
\* ends or fails.
TTSFairness ==
    \A c \in Calls :
        /\ WF_vars(SynthReturns(c) \/ SynthFails(c))
        /\ WF_vars(PlayStarted(c) \/ PlayRejected(c))
        /\ WF_vars(AudioEnded(c) \/ AudioError(c))

\* The text-to-speech service on a platform that answers.
SpecTTSFair == SpecTTS /\ TTSFairness

\* C21: every call of streamTextToSpeech that is pending (awaiting synthesis
\* or playback) eventually resolves or rejects.
C21_CallsSettle ==
    \A c \in Calls :
        (tpc[c] \in {"synth", "play"}) ~> (tpc[c] \in {"resolved", "rejected"})

\* C21 failing state: a call awaits the playback of an element that a later
\* request, stopCurrentAudio or the unload paused while it was playing; no
\* handler of that element is left to run.
C21_PendingForever ==
    \E a \in Calls :
        /\ tpc[a] = "play" /\ audio[a] = "paused"
        /\ currentAudio # a
        /\ ~ENABLED (PlayStarted(a) \/ PlayRejected(a) \/ AudioEnded(a) \/ AudioError(a))

\* How many times a handler recorded as op did e on id.
Count(op, e, id) ==
    Cardinality({n \in 1..Len(op.fx) : op.fx[n].e = e /\ op.fx[n].id = id})

\* C22: no handler calls close() on the same socket more than once, also when
\* the 'close' event is delivered from inside socket.close(); a stop by the
\* button or by onClose that finds a socket closes it exactly once.
C22_CloseOnce ==
    [][\A k \in Ids :
          /\ Count(lastOp', "close", k) <= 1
          /\ (lastOp'.op \in {"stopListening", "onClose"} /\ socket = k)
                => Count(lastOp', "close", k) = 1]_vars

\* C22 failing state: one stop called close() on a socket, the 'close'
\* handler ran inside that call and re-entered stopListening, which called
\* close() on the same, already closed socket.
C22_ClosedTwice ==
    /\ lastOp.op \in {"stopListening", "onClose"}
    /\ DidTxt("log", "EVI WebSocket closed")
    /\ \E k \in Ids :
         /\ Count(lastOp, "close", k) = 2
         /\ \E n \in 1..Len(Fx) : Fx[n] = Ev("close", k, "closed")
         /\ readyState[k] = "closed"
    /\ HandlesAbsent /\ ~isListening

\* C23: every element of the service that is playing is the one currentAudio
\* refers to, so nothing plays once stopCurrentAudio or the unload has run; a
\* handler of another element leaves currentAudio alone while the current
\* element is playing; and no handler calls play() after the unload.
C23_CurrentIsPlaying ==
    [][/\ Playing' \subseteq {currentAudio'}
       /\ lastOp'.op = "onunload" => Playing' = {}
       /\ (/\ lastOp'.op \in {"audioEnded", "audioError", "playRejected"}
           /\ currentAudio # lastOp'.id
           /\ currentAudio \in Playing')
            => currentAudio' = currentAudio
       /\ ~loaded => ~Has(lastOp', "play")]_vars

\* C23 failing state: the plugin was unloaded while a synthesis request was in
\* flight; the response arrived afterwards and its audio is playing.
C23_PlayingAfterUnload ==
    /\ ~loaded
    /\ \E a \in Calls : audio[a] = "playing" /\ tpc[a] = "play" /\ currentAudio = a
====
